---- MODULE Spec2Model ----
(***************************************************************************)
(* Model of src/src/resource.ts: ResourceBuilder (setContext,             *)
(* createAction, addNotifier, addApi, build) and BaseResource (getAction,  *)
(* callAction, getApi, callApi).                                           *)
(*                                                                         *)
(* JavaScript objects are held by reference, so the model keeps a heap:    *)
(* actionObjs, notifierMaps and apiObjs hold the plain objects / Maps, and *)
(* builders and resources hold indices into them.  Callbacks supplied by   *)
(* the caller (actions, notifiers) are opaque: what such a callback does   *)
(* when invoked (return, return a promise, throw; resolve, reject) is      *)
(* chosen nondeterministically at the step where the code invokes or       *)
(* awaits it.                                                              *)
(***************************************************************************)
EXTENDS Integers, Sequences, FiniteSets, TLC

\* ---------------------------------------------------------------- bounds
\* Number of builder operations (setContext, createAction, addNotifier,
\* addApi, build) performed in one behaviour.
MaxOps == 4

\* ---------------------------------------------------------------- inputs
\* Property names used as action names.  "toString" is a name every plain
\* object inherits from Object.prototype.
Names == {"a", "toString"}

InheritedNames == {"toString"}

BuiltinToString == "Object.prototype.toString"

\* User-supplied action functions and notifier callbacks (by reference).
Fns == {"f1", "f2"}

Notifiers == {"n1", "n2"}

\* The callbacks passed to addNotifier alone, and those registered under a
\* route string.
UnnamedCallbacks == {"n1"}

RouteNotifiers == {"n2"}

\* Route strings, and those passed to addApi.  A route is unregistered in
\* the resources whose builder addApi was not called on.
Routes == {"/x"}

RegRoutes == Routes

\* The methods of the type Method; only those of RegMethods (and the
\* default) are ever passed to addApi.
Methods == {"GET", "POST", "PUT", "DELETE"}

RegMethods == {"GET", "POST"}

\* The positional arguments of a call, taken as one value.
Args == {"x"}

\* Values passed to setContext; "null" stands for the values JavaScript
\* treats as falsy (0, "", false, null, undefined).
CtxValues == {"null", "c1"}

Falsy == {"null"}

\* The callers of callAction / callApi; each makes one call.
Callers == {"k1"}

Undefined == "undefined"

EmptyObject == "{}"

None == <<>>

NoApi == [method |-> Undefined, route |-> Undefined, action |-> Undefined]

\* The keys the _notifiers Map is given: addNotifier's first argument, an
\* action name, a route string, or a callback when addNotifier is called
\* with the callback alone.
MapKeys == Names \cup RegRoutes \cup UnnamedCallbacks

VARIABLES
    actionObjs,    \* heap: the plain objects used as _actions
    notifierMaps,  \* heap: the Map objects used as _notifiers
    apiObjs,       \* heap: the plain objects used as _apis
    builders,      \* the ResourceBuilder instances, in order of creation
    resources,     \* the BaseResource instances, in order of creation
    calls,         \* per caller: its callAction / callApi invocation
    chain,         \* history: the chained builder operations so far (a set)
    nmut,          \* history: how many chained builder operations so far
    hist           \* history: per builder, the calls made on it

vars == <<actionObjs, notifierMaps, apiObjs, builders, resources, calls,
          chain, nmut, hist>>

\* ------------------------------------------------------------ JS helpers
\* `context || {}` of the constructor: a falsy or missing argument becomes a
\* new empty object.
ConstructorContext(context) ==
    IF context \in Falsy \cup {Undefined} THEN EmptyObject ELSE context

\* The default of addApi's third parameter.
DefaultMethod(method) == IF method = Undefined THEN "GET" ELSE method

\* Mutant of SetAdd: the notifiers are kept in an array.
SetAddAgain(set, member) == Append(set, member)

\* Set.prototype.add on an insertion-ordered Set: a member already present
\* keeps its place and is not added again.
SetAdd(set, member) ==
    IF \E i \in 1..Len(set) : set[i] = member THEN set ELSE Append(set, member)

Range(seq) == {seq[i] : i \in 1..Len(seq)}

\* A fresh `{}` used as _actions / _apis, and a fresh `new Map()`.  A Map key
\* with no entry and one with an empty Set are both the empty sequence:
\* callAction reads them alike (`notifiers?.size` is falsy for both).
EmptyActions == [n \in Names |-> Undefined]

EmptyApis == [r \in Routes |-> NoApi]

EmptyNotifierMap == [n \in MapKeys |-> <<>>]

\* Builder operations performed so far, build() included.
NOps == nmut + Len(resources)

\* One chained builder operation, as recorded in the history.
ChainOp(op, key, a, b) == [op |-> op, key |-> key, a |-> a, b |-> b]

\* The history of the calls made on one builder: for each action name the
\* last createAction call and for each route the last addApi call (latest),
\* the addNotifier calls (added) and those made more than once (repeated),
\* and the action names registered before the setContext call that made
\* the builder (kept).
NoHistory == [latest |-> {}, added |-> {}, repeated |-> {}, kept |-> {}]

Recorded(h, op) ==
    IF op.op \in {"createAction", "addApi"}
    THEN [h EXCEPT !.latest =
             {o \in @ : ~(o.op = op.op /\ o.key = op.key)} \cup {op}]
    ELSE IF op.op = "addNotifier"
    THEN [h EXCEPT !.added = @ \cup {op},
                   !.repeated = IF op \in h.added THEN @ \cup {op} ELSE @]
    ELSE [NoHistory EXCEPT !.kept = h.kept \cup
             {o.key : o \in {q \in h.latest : q.op = "createAction"}}]

\* ------------------------------------------------------ ResourceBuilder
\* new ResourceBuilder(name, context, actions): the instance, given the heap
\* indices of its _actions object, its new _notifiers Map and its new _apis
\* object.  lastSet is history (the argument of the setContext call that
\* made the builder); the code does not read it.
NewBuilder(context, actionsRef, freshRef) ==
    [context   |-> ConstructorContext(context),
     actions   |-> actionsRef,
     notifiers |-> freshRef,
     apis      |-> freshRef,
     lastSet   |-> context]

\* A caller that has not called yet.  Of a call's fields,
\*   via, res, route, method, name, arg  are the call's inputs;
\*   pc, target, invoked, produced, notified, pending, completed, settled
\*       are what the code has done: where callAction stands, the name it
\*       was entered with, the invocations of the action and of the
\*       notifiers, the promises awaited, the settlement of the call;
\*   own, api, outcome, registered, threw, failed  are observations the
\*       code does not read: the own property of _actions and the entry of
\*       _apis the call met, whether the action succeeded, the notifiers
\*       present at the fan-out, the one that threw when invoked, and the
\*       notifiers that failed, in order.  overlapped is history: whether
\*       the call was in flight while another call was.
Idle ==
    [pc |-> "idle", via |-> "", res |-> 0, route |-> "", method |-> "",
     name |-> "", arg |-> "",
     target |-> "", invoked |-> <<>>, produced |-> None, notified |-> <<>>,
     pending |-> {}, completed |-> {}, settled |-> None,
     own |-> Undefined, api |-> NoApi, outcome |-> "", registered |-> <<>>,
     threw |-> Undefined, failed |-> <<>>, overlapped |-> FALSE]

\* createResource(name): one builder with no context and no actions.
Init ==
    /\ actionObjs = <<EmptyActions>>
    /\ notifierMaps = <<EmptyNotifierMap>>
    /\ apiObjs = <<EmptyApis>>
    /\ builders = <<NewBuilder(Undefined, 1, 1)>>
    /\ resources = <<>>
    /\ calls = [k \in Callers |-> Idle]
    /\ chain = {}
    /\ nmut = 0
    /\ hist = <<NoHistory>>

\* The builder operations are chained, as the fluent interface is used: each
\* (build() too) applies to the builder the previous one returned, the head
\* of the chain.
ChainHead == Len(builders)

\* The history after one more chained operation.
Chained(op) ==
    /\ chain' = chain \cup {op}
    /\ nmut' = nmut + 1
    /\ hist' = IF op.op = "setContext"
               THEN Append(hist, Recorded(hist[ChainHead], op))
               ELSE [hist EXCEPT ![ChainHead] = Recorded(@, op)]

\* setContext(context): a new builder that takes this builder's _actions
\* object itself, and starts with a new _notifiers Map and a new _apis.
SetContext(b, context) ==
    /\ NOps < MaxOps
    /\ builders' = Append(builders,
          NewBuilder(context, builders[b].actions, Len(builders) + 1))
    /\ notifierMaps' = Append(notifierMaps, EmptyNotifierMap)
    /\ apiObjs' = Append(apiObjs, EmptyApis)
    /\ Chained(ChainOp("setContext", "", context, ""))
    /\ UNCHANGED <<actionObjs, resources, calls>>

\* createAction(name, action): assigns into the _actions object.
CreateAction(b, name, action) ==
    /\ NOps < MaxOps
    /\ actionObjs' = [actionObjs EXCEPT ![builders[b].actions][name] = action]
    /\ Chained(ChainOp("createAction", name, action, ""))
    /\ UNCHANGED <<notifierMaps, apiObjs, builders, resources, calls>>

\* addNotifier(name, notifier): adds to the Set kept under name.  Called with
\* a callback alone, the callback is `name` and `notifier` is undefined.
AddNotifier(b, name, notifier) ==
    /\ NOps < MaxOps
    /\ notifierMaps' = [notifierMaps EXCEPT
          ![builders[b].notifiers][name] = SetAdd(@, notifier)]
    /\ Chained(ChainOp("addNotifier", name, notifier, ""))
    /\ UNCHANGED <<actionObjs, apiObjs, builders, resources, calls>>

\* addApi(route, name, method = "GET"): assigns into the _apis object.
AddApi(b, route, name, method) ==
    /\ NOps < MaxOps
    /\ apiObjs' = [apiObjs EXCEPT ![builders[b].apis][route] =
          [method |-> DefaultMethod(method), route |-> route, action |-> name]]
    /\ Chained(ChainOp("addApi", route, name, DefaultMethod(method)))
    /\ UNCHANGED <<actionObjs, notifierMaps, builders, resources, calls>>

\* What a resource with these fields holds now: its context and the present
\* contents of the objects its fields refer to.
Content(r) ==
    [context   |-> r.context,
     actions   |-> actionObjs[r.actions],
     notifiers |-> notifierMaps[r.notifiers],
     apis      |-> apiObjs[r.apis]]

\* new BaseResource(name, context, actions, notifiers, apis): the fields are
\* the builder's own objects.  The other fields are history the code does
\* not read: the builder, what the resource held when built (snap), the
\* chain of operations that led to it, the calls made on its builder, and
\* the argument of the last setContext of the chain.
NewResource(b) ==
    [context   |-> builders[b].context,
     actions   |-> builders[b].actions,
     notifiers |-> builders[b].notifiers,
     apis      |-> builders[b].apis,
     builder   |-> b,
     snap      |-> Content(builders[b]),
     chain     |-> chain,
     chainLen  |-> nmut,
     hist      |-> hist[b],
     lastSet   |-> builders[b].lastSet]

\* build().  Building twice with no operation in between gives a second
\* resource with the same fields; the second is left out.
Build(b) ==
    /\ NOps < MaxOps
    /\ \A i \in 1..Len(resources) : resources[i].chainLen # nmut
    /\ resources' = Append(resources, NewResource(b))
    /\ UNCHANGED <<actionObjs, notifierMaps, apiObjs, builders, calls,
                   chain, nmut, hist>>

\* ---------------------------------------------------------- BaseResource
\* A property read `obj[name]` on a plain object: the object's own property,
\* else the one inherited from Object.prototype, else undefined.
GetProperty(obj, name) ==
    IF obj[name] # Undefined THEN obj[name]
    ELSE IF name \in InheritedNames THEN BuiltinToString
    ELSE Undefined

\* getAction(name)
GetAction(r, name) == GetProperty(actionObjs[resources[r].actions], name)

\* Mutant of GetApi: the stored method is not compared.
GetApiAnyMethod(r, route, method) == apiObjs[resources[r].apis][route]

\* getApi(route, method): undefined (NoApi) unless the route is stored under
\* that method.
GetApi(r, route, method) ==
    LET api == apiObjs[resources[r].apis][route]
    IN  IF api = NoApi \/ api.method # method THEN NoApi ELSE api

\* What the callbacks produce.  A user action that succeeds yields a value
\* determined by the function, the context and the argument it was given;
\* Object.prototype.toString called as a plain function yields a fixed
\* string.  A failing action or notifier fails with an error of its own.
ActionValue(fn, ctx, arg) ==
    IF fn = BuiltinToString THEN <<"value", "[object Undefined]">>
    ELSE <<"value", fn, ctx, arg>>

ActionError(fn) == <<"error", "thrown by", fn>>

NotifierError(notifier) == <<"error", "thrown by", notifier>>

\* The errors the resource itself throws.
ActionNotFound(name) == <<"error", "Action not found", name>>

ApiNotFound(route) == <<"error", "API not found", route>>

MethodNotAllowed(method, route) == <<"error", "Method not allowed", method, route>>

\* The context callAction passes to the action.
ActionContext(r) == resources[r].context

\* callAction(name, ...args) up to its first await: the lookup, the not-found
\* throw, the invocation of the action.
CallAction(c, r, name, arg) ==
    LET action == GetAction(r, name)
    IN  IF action = Undefined
        THEN [c EXCEPT !.target = name, !.pc = "rejected",
                 !.settled = ActionNotFound(name)]
        ELSE [c EXCEPT !.target = name, !.pc = "awaitAction",
                 !.invoked = Append(@, [fn |-> action, ctx |-> ActionContext(r),
                                        arg |-> arg])]

\* Mutant of CallApi: the arguments are not handed on to callAction.
CallApiDroppingArgs(c, r, route, method, arg) ==
    LET api == GetApi(r, route, method)
    IN  IF api = NoApi
        THEN [c EXCEPT !.pc = "rejected", !.settled = ApiNotFound(route)]
        ELSE CallAction(c, r, api.action, Undefined)

\* Mutant of CallApi: the route is looked up without regard to the method.
CallApiAnyMethod(c, r, route, method, arg) ==
    LET api == apiObjs[resources[r].apis][route]
    IN  IF api = NoApi
        THEN [c EXCEPT !.pc = "rejected", !.settled = ApiNotFound(route)]
        ELSE CallAction(c, r, api.action, arg)

\* callApi(route, method, ...args): resolves the route and hands over to
\* callAction.
CallApi(c, r, route, method, arg) ==
    LET api == GetApi(r, route, method)
    IN  IF api = NoApi
        THEN [c EXCEPT !.pc = "rejected", !.settled = ApiNotFound(route)]
        ELSE IF api.method # method
        THEN [c EXCEPT !.pc = "rejected",
                 !.settled = MethodNotAllowed(method, route)]
        ELSE CallAction(c, r, api.action, arg)

\* Mutant of NotifiersOf: the notifiers of every action name are taken.
NotifiersOfAnyName(r, name) ==
    LET map == notifierMaps[resources[r].notifiers]
        other == CHOOSE n \in Names : n # name
        NotHere(notifier) == notifier \notin Range(map[name])
    IN  map[name] \o SelectSeq(map[other], NotHere)

\* `this._notifiers.get(name)`, read after the action's result has arrived.
NotifiersOf(r, name) == notifierMaps[resources[r].notifiers][name]

\* `[...notifiers].map((fn) => fn(result))`: the notifiers are invoked in
\* the Set's order; does[i] is what the i-th does when invoked ("return",
\* "promise" or "throw").  The first one that throws ends the map, so the
\* notifiers invoked are those up to and including it.
FirstThrow(does) ==
    IF \E i \in DOMAIN does : does[i] = "throw"
    THEN CHOOSE i \in DOMAIN does :
            /\ does[i] = "throw"
            /\ \A j \in 1..(i - 1) : does[j] # "throw"
    ELSE 0

\* Mutant of Started: a notifier that throws does not end the map.
StartedDespiteThrow(notifiers, does) == notifiers

Started(notifiers, does) ==
    IF FirstThrow(does) = 0 THEN notifiers
    ELSE SubSeq(notifiers, 1, FirstThrow(does))

\* Mutant of AllDone: the wait gives up on the last notifier.
AllButOneDone(pending) == Cardinality(pending) <= 1

\* Mutant of AllDone: the notifiers' promises are not awaited.
NotAwaited(pending) == TRUE

\* Whether `await Promise.all(...)` lets callAction go on: every promise the
\* notifiers returned has resolved.
AllDone(pending) == pending = {}

\* Mutant of Returned: callAction returns what Promise.all gave.
ReturnedFromNotifiers(c) ==
    IF c.notified = <<>> THEN c.produced ELSE <<"value", "notifier results">>

\* The value callAction returns.
Returned(c) == c.produced

\* callAction after `await action(...)` when the action's promise resolved:
\* the notifier lookup and fan-out, up to `await Promise.all(...)`.
AfterAction(c, notifiers, does) ==
    LET result == ActionValue(c.invoked[1].fn, c.invoked[1].ctx, c.invoked[1].arg)
        d == [c EXCEPT !.produced = result]
        started == Started(notifiers, does)
    IN  IF Len(notifiers) = 0
        THEN [d EXCEPT !.pc = "resolved", !.settled = Returned(d)]
        ELSE LET e == [d EXCEPT
                         !.notified = [i \in 1..Len(started) |->
                                          [notifier |-> started[i], value |-> result]],
                         !.pending = {started[i] : i \in
                                          {j \in 1..Len(started) : does[j] = "promise"}},
                         !.completed = {started[i] : i \in
                                          {j \in 1..Len(started) : does[j] = "return"}}]
             IN  IF FirstThrow(does) # 0
                 THEN [e EXCEPT !.pc = "rejected",
                          !.settled = NotifierError(notifiers[FirstThrow(does)])]
                 ELSE [e EXCEPT !.pc = "awaitNotifiers"]

\* Mutant of AfterActionFailure: the notifiers run in a `finally`.
AfterActionFailureNotifying(c, notifiers) ==
    [c EXCEPT !.pc = "rejected", !.settled = ActionError(c.invoked[1].fn),
        !.notified = [i \in 1..Len(notifiers) |->
                         [notifier |-> notifiers[i], value |-> None]]]

\* callAction when the action's promise rejected (or the action threw): the
\* failure leaves callAction as it is.
AfterActionFailure(c, notifiers) ==
    [c EXCEPT !.pc = "rejected", !.settled = ActionError(c.invoked[1].fn)]

\* Mutant of AfterNotifierFailure: a notifier's rejection is caught.
AfterNotifierFailureCaught(c, notifier) ==
    [c EXCEPT !.pending = @ \ {notifier}, !.completed = @ \cup {notifier}]

\* Promise.all when one of the notifiers' promises rejects: callAction
\* rejects with that failure.
AfterNotifierFailure(c, notifier) ==
    [c EXCEPT !.pc = "rejected", !.pending = @ \ {notifier},
        !.settled = NotifierError(notifier)]

ResourceIds == 1..Len(resources)

\* Whether a call is in flight: made and not settled.
InFlight(c) == c.pc \in {"awaitAction", "awaitNotifiers"}

\* The calls after caller k has made its call: when the new call and
\* another one are both in flight, both are marked as overlapping.
Overlapping(cs, k) ==
    IF InFlight(cs[k]) /\ \E j \in DOMAIN cs \ {k} : InFlight(cs[j])
    THEN [j \in DOMAIN cs |->
             IF InFlight(cs[j]) THEN [cs[j] EXCEPT !.overlapped = TRUE]
             ELSE cs[j]]
    ELSE cs

\* A caller calls callAction(name, arg) on a resource.
StartCallAction(k, r, name, arg) ==
    /\ calls[k].pc = "idle"
    /\ calls' = Overlapping([calls EXCEPT ![k] =
          CallAction([calls[k] EXCEPT !.via = "callAction", !.res = r,
                         !.name = name, !.arg = arg,
                         !.own = actionObjs[resources[r].actions][name]],
                     r, name, arg)], k)
    /\ UNCHANGED <<actionObjs, notifierMaps, apiObjs, builders, resources,
                   chain, nmut, hist>>

\* A caller calls callApi(route, method, arg) on a resource.
StartCallApi(k, r, route, method, arg) ==
    /\ calls[k].pc = "idle"
    /\ LET api == apiObjs[resources[r].apis][route]
       IN  calls' = Overlapping([calls EXCEPT ![k] =
             CallApi([calls[k] EXCEPT !.via = "callApi", !.res = r,
                         !.route = route, !.method = method, !.arg = arg,
                         !.api = api,
                         !.own = IF api = NoApi THEN Undefined
                                 ELSE actionObjs[resources[r].actions][api.action]],
                     r, route, method, arg)], k)
    /\ UNCHANGED <<actionObjs, notifierMaps, apiObjs, builders, resources,
                   chain, nmut, hist>>

\* The action's promise resolves; callAction runs up to its next await or
\* to its end.  does[i] is what the i-th notifier does when invoked.
ActionResolves(k, does) ==
    /\ calls[k].pc = "awaitAction"
    /\ LET notifiers == NotifiersOf(calls[k].res, calls[k].target)
           thrower == IF FirstThrow(does) = 0 THEN Undefined
                      ELSE notifiers[FirstThrow(does)]
       IN  /\ Len(does) = Len(notifiers)
           /\ calls' = [calls EXCEPT ![k] =
                 [AfterAction(calls[k], notifiers, does) EXCEPT
                     !.outcome = "succeeded", !.registered = notifiers,
                     !.threw = thrower,
                     !.failed = IF thrower = Undefined THEN <<>>
                                ELSE <<thrower>>]]
    /\ UNCHANGED <<actionObjs, notifierMaps, apiObjs, builders, resources,
                   chain, nmut, hist>>

\* The action fails.  (Object.prototype.toString called this way does not.)
ActionRejects(k) ==
    /\ calls[k].pc = "awaitAction"
    /\ calls[k].invoked[1].fn \in Fns
    /\ calls' = [calls EXCEPT ![k] =
          [AfterActionFailure(calls[k],
                              NotifiersOf(calls[k].res, calls[k].target))
              EXCEPT !.outcome = "failed"]]
    /\ UNCHANGED <<actionObjs, notifierMaps, apiObjs, builders, resources,
                   chain, nmut, hist>>

\* The promise a notifier returned resolves.
NotifierResolves(k, notifier) ==
    /\ calls[k].pc = "awaitNotifiers"
    /\ notifier \in calls[k].pending
    /\ calls' = [calls EXCEPT ![k].pending = @ \ {notifier},
                              ![k].completed = @ \cup {notifier}]
    /\ UNCHANGED <<actionObjs, notifierMaps, apiObjs, builders, resources,
                   chain, nmut, hist>>

\* The promise a notifier returned rejects.
NotifierRejects(k, notifier) ==
    /\ calls[k].pc = "awaitNotifiers"
    /\ notifier \in calls[k].pending
    /\ calls' = [calls EXCEPT ![k] =
          [AfterNotifierFailure(calls[k], notifier) EXCEPT
              !.failed = Append(calls[k].failed, notifier)]]
    /\ UNCHANGED <<actionObjs, notifierMaps, apiObjs, builders, resources,
                   chain, nmut, hist>>

\* Mutant of NotifiersAwaited: one barrier for all the calls in flight.
NotifiersAwaitedTogether(k) ==
    /\ calls[k].pc = "awaitNotifiers"
    /\ \A j \in DOMAIN calls : AllDone(calls[j].pending)
    /\ calls' = [calls EXCEPT ![k].pc = "resolved",
                              ![k].settled = Returned(calls[k])]
    /\ UNCHANGED <<actionObjs, notifierMaps, apiObjs, builders, resources,
                   chain, nmut, hist>>

\* `await Promise.all(...)` is over; callAction returns the result.
NotifiersAwaited(k) ==
    /\ calls[k].pc = "awaitNotifiers"
    /\ AllDone(calls[k].pending)
    /\ calls' = [calls EXCEPT ![k].pc = "resolved",
                              ![k].settled = Returned(calls[k])]
    /\ UNCHANGED <<actionObjs, notifierMaps, apiObjs, builders, resources,
                   chain, nmut, hist>>

\* What the notifiers of one fan-out do when invoked.
Doings == UNION {[1..n -> {"return", "promise", "throw"}] :
                    n \in 0..Cardinality(Notifiers)}

Next ==
    \/ \E context \in CtxValues : SetContext(ChainHead, context)
    \/ \E name \in Names, action \in Fns : CreateAction(ChainHead, name, action)
    \/ \E name \in Names, notifier \in Notifiers :
          AddNotifier(ChainHead, name, notifier)
    \/ \E route \in RegRoutes, notifier \in RouteNotifiers :
          AddNotifier(ChainHead, route, notifier)
    \/ \E callback \in UnnamedCallbacks :
          AddNotifier(ChainHead, callback, Undefined)
    \/ \E route \in RegRoutes, name \in Names,
          method \in RegMethods \cup {Undefined} :
          AddApi(ChainHead, route, name, method)
    \/ Build(ChainHead)
    \/ \E k \in Callers, r \in ResourceIds, name \in Names, arg \in Args :
          StartCallAction(k, r, name, arg)
    \/ \E k \in Callers, r \in ResourceIds, route \in Routes,
          method \in Methods, arg \in Args :
          StartCallApi(k, r, route, method, arg)
    \/ \E k \in Callers, does \in Doings : ActionResolves(k, does)
    \/ \E k \in Callers : ActionRejects(k)
    \/ \E k \in Callers, notifier \in Notifiers : NotifierResolves(k, notifier)
    \/ \E k \in Callers, notifier \in Notifiers : NotifierRejects(k, notifier)
    \/ \E k \in Callers : NotifiersAwaited(k)

Spec == Init /\ [][Next]_vars

\* ------------------------------------------------------ concurrent calls
\* Two callers call one built resource, with arguments that tell their
\* calls apart.  The resource is the one built by
\*   createResource(name).createAction("a", f1)[.createAction("toString", f2)]
\*       [.addNotifier("a", n1)[.addNotifier("a", n2)]].addApi("/x", "a").build()
ConcurrentCallers == {"k1", "k2"}

ConcurrentArgs == {"x", "y"}

BuiltChains ==
    {[fns |-> fns, ns |-> ns] :
        fns \in {[n \in Names |-> IF n = "a" THEN "f1" ELSE t] :
                    t \in {Undefined, "f2"}},
        ns \in {<<>>, <<"n1">>, <<"n1", "n2">>}}

ChainOf(bc) ==
    {ChainOp("createAction", n, bc.fns[n], "") :
        n \in {m \in Names : bc.fns[m] # Undefined}}
    \cup {ChainOp("addNotifier", "a", bc.ns[i], "") : i \in 1..Len(bc.ns)}
    \cup {ChainOp("addApi", "/x", "a", "GET")}

InitConcurrent ==
    \E bc \in BuiltChains :
        LET ops == ChainOf(bc)
            h == [NoHistory EXCEPT
                     !.latest = {o \in ops : o.op \in {"createAction", "addApi"}},
                     !.added = {o \in ops : o.op = "addNotifier"}]
            content ==
                [context   |-> EmptyObject,
                 actions   |-> bc.fns,
                 notifiers |-> [EmptyNotifierMap EXCEPT !["a"] = bc.ns],
                 apis      |-> [EmptyApis EXCEPT !["/x"] =
                                   [method |-> "GET", route |-> "/x",
                                    action |-> "a"]]]
        IN  /\ actionObjs = <<content.actions>>
            /\ notifierMaps = <<content.notifiers>>
            /\ apiObjs = <<content.apis>>
            /\ builders = <<NewBuilder(Undefined, 1, 1)>>
            /\ resources = <<[context   |-> builders[1].context,
                              actions   |-> 1,
                              notifiers |-> 1,
                              apis      |-> 1,
                              builder   |-> 1,
                              snap      |-> content,
                              chain     |-> ops,
                              chainLen  |-> Cardinality(ops),
                              hist      |-> h,
                              lastSet   |-> Undefined]>>
            /\ calls = [k \in ConcurrentCallers |-> Idle]
            /\ chain = ops
            /\ nmut = Cardinality(ops)
            /\ hist = <<h>>

NextConcurrent ==
    \/ \E k \in ConcurrentCallers, r \in ResourceIds, name \in Names,
          arg \in ConcurrentArgs :
          StartCallAction(k, r, name, arg)
    \/ \E k \in ConcurrentCallers, r \in ResourceIds, route \in RegRoutes,
          method \in RegMethods, arg \in ConcurrentArgs :
          StartCallApi(k, r, route, method, arg)
    \/ \E k \in ConcurrentCallers, does \in Doings : ActionResolves(k, does)
    \/ \E k \in ConcurrentCallers : ActionRejects(k)
    \/ \E k \in ConcurrentCallers, notifier \in Notifiers :
          NotifierResolves(k, notifier)
    \/ \E k \in ConcurrentCallers, notifier \in Notifiers :
          NotifierRejects(k, notifier)
    \/ \E k \in ConcurrentCallers : NotifiersAwaited(k)

SpecConcurrent == InitConcurrent /\ [][NextConcurrent]_vars

\* ===================================================================
\* Properties
\* ===================================================================
\* The calls made so far.
Made == {k \in DOMAIN calls : calls[k].pc # "idle"}

\* The notifiers a call has invoked, in order.
NotifiedSeq(c) == [i \in 1..Len(c.notified) |-> c.notified[i].notifier]

\* The function a call's action name stood for when the call was made: a
\* function registered by createAction.
Registered(c) == c.own \in Fns

\* The one invocation of the action a call of a registered action makes.
ExpectedInvocation(c) ==
    [fn |-> c.own, ctx |-> resources[c.res].context, arg |-> c.arg]

\* C1: callAction on a registered action invokes that action exactly once,
\* with the resource's context and the caller's argument, and when the call
\* resolves it resolves to the value that invocation produced, whatever the
\* notifiers did; with the action succeeded and every notifier completed the
\* call is not rejected.
C1_CallActionResult ==
    \A k \in Made :
        LET c == calls[k]
        IN  (c.via = "callAction" /\ Registered(c)) =>
               /\ c.target = c.name
               /\ c.invoked = <<ExpectedInvocation(c)>>
               /\ c.pc = "resolved" =>
                     /\ c.outcome = "succeeded"
                     /\ c.settled = ActionValue(c.own, resources[c.res].context,
                                                c.arg)
               /\ (c.outcome = "succeeded" /\ c.failed = <<>>) =>
                     c.pc \in {"awaitNotifiers", "resolved"}

\* C1 witness: a callAction of a registered action has resolved after its
\* notifiers ran.
C1_Witness ==
    \E k \in Made :
        /\ calls[k].via = "callAction"
        /\ Registered(calls[k])
        /\ calls[k].pc = "resolved"
        /\ Len(calls[k].notified) = 2

\* C2 (as claimed): after the action of a registered name succeeded, every
\* notifier registered for it has been invoked exactly once with the
\* action's result, whatever the notifiers do, and the call has not resolved
\* before all of them completed.
C2_EveryNotifierOnce ==
    \A k \in Made :
        LET c == calls[k]
        IN  (Registered(c) /\ c.outcome = "succeeded") =>
               /\ Len(c.notified) = Len(c.registered)
               /\ \A n \in Range(c.registered) :
                     \E i \in 1..Len(c.notified) :
                        c.notified[i] = [notifier |-> n, value |-> c.produced]
               /\ c.pc = "resolved" => c.completed = Range(c.registered)

\* Where a notifier stands in the Set read at the fan-out.
IndexIn(notifiers, notifier) ==
    CHOOSE i \in 1..Len(notifiers) : notifiers[i] = notifier

\* C2 (amended): after the action of a registered name succeeded, the
\* notifiers invoked are, each exactly once and with the action's result,
\* those registered up to and including the first one that throws when
\* invoked -- all of them when none does -- and the call has not resolved
\* before all the registered notifiers completed.
C2_NotifiersUpToFirstThrow ==
    \A k \in Made :
        LET c == calls[k]
            m == IF c.threw = Undefined THEN Len(c.registered)
                 ELSE IndexIn(c.registered, c.threw)
        IN  (Registered(c) /\ c.outcome = "succeeded") =>
               /\ NotifiedSeq(c) = SubSeq(c.registered, 1, m)
               /\ \A i \in 1..Len(c.notified) : c.notified[i].value = c.produced
               /\ c.produced = ActionValue(c.own, resources[c.res].context, c.arg)
               /\ c.pc = "resolved" =>
                     /\ c.threw = Undefined
                     /\ c.completed = Range(c.registered)

\* C2 witness: of two registered notifiers the first threw when invoked, and
\* the second was not invoked.
C2_Witness ==
    \E k \in Made :
        /\ Registered(calls[k])
        /\ calls[k].outcome = "succeeded"
        /\ Len(calls[k].registered) = 2
        /\ calls[k].threw = calls[k].registered[1]
        /\ Len(calls[k].notified) = 1

\* What callAction(name, arg) does, in terms of what a call has done so far:
\* the function `name` stands for is invoked once with the resource's context
\* and the argument; a missing function rejects the call; a failure of the
\* action rejects it with that failure and no notifier runs; after a success
\* only notifiers registered under `name` run, with the result, and the call
\* settles with the result or with the first notifier failure.
AsCallAction(c, name) ==
    LET fn == IF c.own # Undefined THEN c.own
              ELSE IF name \in InheritedNames THEN BuiltinToString
              ELSE Undefined
        ctx == resources[c.res].context
    IN  /\ c.target = name
        /\ fn = Undefined =>
              /\ c.pc = "rejected"
              /\ c.settled = ActionNotFound(name)
              /\ c.invoked = <<>>
              /\ c.notified = <<>>
        /\ fn # Undefined =>
              /\ c.invoked = <<[fn |-> fn, ctx |-> ctx, arg |-> c.arg]>>
              /\ c.outcome = "" => (c.pc = "awaitAction" /\ c.notified = <<>>)
              /\ c.outcome = "failed" =>
                    /\ c.pc = "rejected"
                    /\ c.settled = ActionError(fn)
                    /\ c.notified = <<>>
              /\ c.outcome = "succeeded" =>
                    /\ c.produced = ActionValue(fn, ctx, c.arg)
                    /\ \A i \in 1..Len(c.notified) :
                          /\ c.notified[i].value = c.produced
                          /\ c.notified[i].notifier \in Range(c.registered)
                    /\ c.pc \in {"awaitNotifiers", "resolved", "rejected"}
                    /\ c.pc = "resolved" => c.settled = c.produced
                    /\ c.pc = "rejected" =>
                          /\ c.failed # <<>>
                          /\ c.settled = NotifierError(c.failed[1])

\* C3: a callApi on a route registered under the requested method is, from
\* the lookup of the action on, a callAction of the route's action with the
\* same argument: it and a direct callAction do the same.
C3_CallApiAsCallAction ==
    \A k \in Made :
        LET c == calls[k]
        IN  /\ (c.via = "callApi" /\ c.api # NoApi /\ c.api.method = c.method)
                  => AsCallAction(c, c.api.action)
            /\ c.via = "callAction" => AsCallAction(c, c.name)

\* C3 witness: a callApi has resolved after the action and a notifier ran.
C3_Witness ==
    \E k \in Made :
        /\ calls[k].via = "callApi"
        /\ Registered(calls[k])
        /\ calls[k].pc = "resolved"
        /\ calls[k].notified # <<>>

\* C6 (as claimed): callAction with a name that createAction has not
\* registered rejects with the not-found error naming it, and invokes no
\* action and no notifier.
C6_UnregisteredRejects ==
    \A k \in Made :
        LET c == calls[k]
        IN  (c.via = "callAction" /\ c.own = Undefined) =>
               /\ c.pc = "rejected"
               /\ c.settled = ActionNotFound(c.name)
               /\ c.invoked = <<>>
               /\ c.notified = <<>>

\* C7: callApi on a route that is not registered, or is registered under
\* another method than the requested one, rejects and invokes no action and
\* no notifier.
C7_RouteMismatchRejects ==
    \A k \in Made :
        LET c == calls[k]
        IN  (c.via = "callApi" /\ (c.api = NoApi \/ c.api.method # c.method)) =>
               /\ c.pc = "rejected"
               /\ c.settled[1] = "error"
               /\ c.invoked = <<>>
               /\ c.notified = <<>>

\* C7 witness: a callApi on a registered route with another method, whose
\* action is registered, was rejected.
C7_Witness ==
    \E k \in Made :
        /\ calls[k].via = "callApi"
        /\ calls[k].api # NoApi
        /\ calls[k].api.method # calls[k].method
        /\ Registered(calls[k])
        /\ calls[k].pc = "rejected"

\* C8: when the action fails, the call (callAction or callApi) rejects with
\* the action's own failure, the action has been invoked once, and no
\* notifier has been invoked.
C8_ActionFailurePropagates ==
    \A k \in Made :
        LET c == calls[k]
        IN  c.outcome = "failed" =>
               /\ c.pc = "rejected"
               /\ Len(c.invoked) = 1
               /\ c.settled = ActionError(c.invoked[1].fn)
               /\ c.notified = <<>>

\* C8 witness: the action of a call failed while a notifier was registered
\* for it.
C8_Witness ==
    \E k \in Made :
        /\ calls[k].outcome = "failed"
        /\ NotifiersOf(calls[k].res, calls[k].target) # <<>>

\* C9: when the action succeeded and a notifier failed, the call is rejected
\* with the first notifier failure, not resolved with the action's result.
C9_NotifierFailureRejects ==
    \A k \in Made :
        LET c == calls[k]
        IN  (c.outcome = "succeeded" /\ c.failed # <<>>) =>
               /\ c.pc = "rejected"
               /\ c.settled = NotifierError(c.failed[1])
               /\ c.settled # c.produced

\* C9 witness: the promise a notifier returned rejected (nothing threw when
\* invoked) after the action of a registered name succeeded.
C9_Witness ==
    \E k \in Made :
        /\ Registered(calls[k])
        /\ calls[k].outcome = "succeeded"
        /\ calls[k].threw = Undefined
        /\ calls[k].failed # <<>>

\* C4 (as claimed): a built resource holds what it held when build()
\* returned, whatever is called on the builders afterwards.
C4_FrozenSnapshot ==
    \A r \in ResourceIds : Content(resources[r]) = resources[r].snap

\* A chain of operations with no two createAction calls on one name, no two
\* addApi calls on one route, no call made twice, at most one setContext.
NonColliding(ops, len) ==
    /\ Cardinality(ops) = len
    /\ \A o1, o2 \in ops :
          (o1.op = o2.op /\ o1.op \in {"createAction", "addApi", "setContext"}
              /\ o1.key = o2.key) => o1 = o2

\* What the operations of a non-colliding chain give when setContext comes
\* first: the context of that call, and every registration of the chain.
InSomeOrder(ops) ==
    [context   |-> IF \E o \in ops : o.op = "setContext"
                   THEN ConstructorContext(
                           (CHOOSE o \in ops : o.op = "setContext").a)
                   ELSE EmptyObject,
     actions   |-> [n \in Names |->
                      IF \E o \in ops : o.op = "createAction" /\ o.key = n
                      THEN (CHOOSE o \in ops :
                               o.op = "createAction" /\ o.key = n).a
                      ELSE Undefined],
     notifiers |-> [n \in Names |->
                      {o.a : o \in {q \in ops :
                                       q.op = "addNotifier" /\ q.key = n}}],
     apis      |-> [rt \in Routes |->
                      IF \E o \in ops : o.op = "addApi" /\ o.key = rt
                      THEN LET o == CHOOSE q \in ops :
                                       q.op = "addApi" /\ q.key = rt
                           IN  [method |-> o.b, route |-> rt, action |-> o.a]
                      ELSE NoApi]]

\* A resource's contents with each notifier Set as a set.
Unordered(content) ==
    [content EXCEPT !.notifiers = [n \in Names |-> Range(content.notifiers[n])]]

\* C5 (as claimed): the resource a non-colliding chain builds is the same
\* in whatever order the chain's operations are called; so it is the one
\* the order with setContext first gives.
C5_OrderIndependent ==
    \A r \in ResourceIds :
        NonColliding(resources[r].chain, resources[r].chainLen) =>
            Unordered(resources[r].snap) = InSomeOrder(resources[r].chain)

\* C10 (as claimed): a built resource's context is the argument of the last
\* setContext call of its chain, whatever the value, and the empty object
\* when there was none.
C10_LastSetContextWins ==
    \A r \in ResourceIds :
        resources[r].context =
            IF resources[r].lastSet = Undefined THEN EmptyObject
            ELSE resources[r].lastSet

\* C11 (as claimed): a callback registered by addNotifier(callback), with no
\* action name, is invoked on every successful call of any action of the
\* built resource, with the action's name and the action's result.
C11_UnnamedNotifierInvoked ==
    \A k \in Made :
        LET c == calls[k]
        IN  (Registered(c) /\ c.outcome = "succeeded") =>
               \A callback \in UnnamedCallbacks :
                  resources[c.res].snap.notifiers[callback] # <<>> =>
                     \E i \in 1..Len(c.notified) :
                        c.notified[i] = [notifier |-> callback,
                                         value |-> <<c.target, c.produced>>]

\* How many times a call invoked a notifier.
TimesNotified(c, notifier) ==
    Cardinality({i \in 1..Len(c.notified) : c.notified[i].notifier = notifier})

\* C12: in a call of a registered action that resolved, every callback that
\* addNotifier was called with for that action on the resource's builder,
\* once or several times, has been invoked exactly once, and so has every
\* callback registered for the action when the notifiers were read.
C12_AddNotifierIdempotent ==
    \A k \in Made :
        LET c == calls[k]
        IN  (Registered(c) /\ c.pc = "resolved") =>
               /\ \A o \in resources[c.res].hist.added :
                     o.key = c.target => TimesNotified(c, o.a) = 1
               /\ \A n \in Range(c.registered) : TimesNotified(c, n) = 1

\* C12 witness: a call resolved after invoking a callback that addNotifier
\* was called with twice for the call's action.
C12_Witness ==
    \E k \in Made :
        /\ Registered(calls[k])
        /\ calls[k].pc = "resolved"
        /\ \E o \in resources[calls[k].res].hist.repeated :
              /\ o.key = calls[k].target
              /\ TimesNotified(calls[k], o.a) = 1

\* C13 (as claimed): in a resource built from the builder setContext(c)
\* returned, an action registered before that setContext call is present,
\* and a callAction of it invokes it once with c as its context.
C13_SetContextKeepsActions ==
    \A k \in Made :
        LET c == calls[k]
        IN  (/\ c.via = "callAction"
             /\ resources[c.res].lastSet # Undefined
             /\ c.name \in resources[c.res].hist.kept) =>
               /\ c.own \in Fns
               /\ Len(c.invoked) = 1
               /\ c.invoked[1].fn = c.own
               /\ c.invoked[1].ctx = resources[c.res].lastSet

\* C14: no callApi, whatever the resource, the route and the method, fails
\* with the method-not-allowed error; a callApi on a route registered under
\* another method fails with the route-not-found error.
C14_MethodNotAllowedUnreachable ==
    \A k \in Made :
        LET c == calls[k]
        IN  c.via = "callApi" =>
               /\ c.settled # MethodNotAllowed(c.method, c.route)
               /\ (c.api # NoApi /\ c.api.method # c.method) =>
                     /\ c.pc = "rejected"
                     /\ c.settled = ApiNotFound(c.route)

\* C14 witness: a callApi on a route registered under another method has
\* been rejected with the route-not-found error.
C14_Witness ==
    \E k \in Made :
        /\ calls[k].via = "callApi"
        /\ calls[k].api # NoApi
        /\ calls[k].api.method # calls[k].method
        /\ calls[k].settled = ApiNotFound(calls[k].route)

\* C15 (as claimed): a callApi on a route registered under the requested
\* method executes the route's action when createAction has registered it,
\* whether before or after addApi, and when it has not, rejects with the
\* action-not-found error naming the action and invokes no action and no
\* notifier.
C15_RouteTargetCheckedAtCall ==
    \A k \in Made :
        LET c == calls[k]
        IN  (c.via = "callApi" /\ c.api # NoApi /\ c.api.method = c.method) =>
               IF c.own \in Fns
               THEN c.invoked = <<ExpectedInvocation(c)>>
               ELSE /\ c.pc = "rejected"
                    /\ c.settled = ActionNotFound(c.api.action)
                    /\ c.invoked = <<>>
                    /\ c.notified = <<>>

OwnFn(c, name) ==
    IF c.own # Undefined THEN c.own
    ELSE IF name \in InheritedNames THEN BuiltinToString
    ELSE Undefined

OwnValue(c) == ActionValue(OwnFn(c, c.target), resources[c.res].context, c.arg)

\* A call in flight can take its next step whatever the other calls are
\* waiting for: its action can complete, each of its pending notifiers can
\* complete, and once they have it can return.
NotWaiting(k) ==
    LET c == calls[k]
    IN  /\ c.pc = "awaitAction" =>
              ENABLED (\E does \in Doings : ActionResolves(k, does))
        /\ c.pc = "awaitNotifiers" =>
              \A n \in c.pending : ENABLED NotifierResolves(k, n)
        /\ (c.pc = "awaitNotifiers" /\ c.pending = {}) =>
              ENABLED NotifiersAwaited(k)

\* What holds of each of two overlapping calls whatever the notifiers do: it
\* invoked its own action once with its own argument, its notifiers got its
\* own result, it resolves with its own result, and it does not wait for
\* the other call.
OwnCall(k) ==
    LET c == calls[k]
    IN  /\ c.invoked = <<[fn |-> OwnFn(c, c.target),
                           ctx |-> resources[c.res].context, arg |-> c.arg]>>
        /\ c.outcome = "succeeded" =>
              /\ c.produced = OwnValue(c)
              /\ \A i \in 1..Len(c.notified) : c.notified[i].value = OwnValue(c)
        /\ c.pc = "resolved" => c.settled = OwnValue(c)
        /\ NotWaiting(k)

\* C17 (as claimed): of two overlapping calls, each resolves to the result
\* of its own action invocation, each notifier of the called action is
\* invoked exactly once per call with that call's own result, and neither
\* call waits for the other.
C17_ConcurrentCallsIndependent ==
    \A k \in Made :
        LET c == calls[k]
        IN  c.overlapped =>
               /\ OwnCall(k)
               /\ c.outcome = "succeeded" =>
                     \A n \in Range(c.registered) : TimesNotified(c, n) = 1

\* C17 (amended): as claimed, except that in a call whose action succeeded
\* the notifiers invoked, each exactly once, are those registered up to and
\* including the first one that throws when invoked, all of them when none
\* does.
C17_ConcurrentCallsUpToFirstThrow ==
    \A k \in Made :
        LET c == calls[k]
            m == IF c.threw = Undefined THEN Len(c.registered)
                 ELSE IndexIn(c.registered, c.threw)
        IN  c.overlapped =>
               /\ OwnCall(k)
               /\ c.outcome = "succeeded" =>
                     /\ NotifiedSeq(c) = SubSeq(c.registered, 1, m)
                     /\ \A n \in Range(NotifiedSeq(c)) : TimesNotified(c, n) = 1

\* C17 witness: two overlapping calls of one action with different
\* arguments have both resolved, each after invoking two notifiers.
C17_Witness ==
    \E j, k \in Made :
        /\ j # k
        /\ calls[j].overlapped /\ calls[k].overlapped
        /\ calls[j].target = calls[k].target
        /\ calls[j].arg # calls[k].arg
        /\ calls[j].pc = "resolved" /\ calls[k].pc = "resolved"
        /\ Len(calls[j].notified) = 2 /\ Len(calls[k].notified) = 2
        /\ calls[j].settled # calls[k].settled

\* C18 (as claimed): while the action of a call has not completed, or the
\* action succeeded and a notifier invoked for it has not completed, the
\* call is not settled, whatever the other notifiers do.
C18_HungCallNeverSettles ==
    \A k \in Made :
        LET c == calls[k]
        IN  /\ (c.invoked # <<>> /\ c.outcome = "") => c.settled = None
            /\ (c.outcome = "succeeded" /\ c.pending # {}) => c.settled = None

\* C18 (amended): while the action has not completed the call is not
\* settled; while a notifier invoked after the action succeeded has not
\* completed the call has not resolved, and it has been rejected only if
\* another notifier of the call failed, with that failure.
C18_HungCallSettlesOnlyByFailure ==
    \A k \in Made :
        LET c == calls[k]
        IN  /\ (c.invoked # <<>> /\ c.outcome = "") =>
                  (c.settled = None /\ c.pc = "awaitAction")
            /\ (c.outcome = "succeeded" /\ c.pending # {}) =>
                  /\ c.pc # "resolved"
                  /\ c.failed = <<>> => (c.settled = None /\ c.pc = "awaitNotifiers")
                  /\ c.failed # <<>> =>
                        (c.pc = "rejected" /\ c.settled = NotifierError(c.failed[1]))

\* C18 witness: a call has been rejected by the rejection of one notifier's
\* promise while another notifier's promise is still pending.
C18_Witness ==
    \E k \in Made :
        /\ calls[k].outcome = "succeeded"
        /\ calls[k].pending # {}
        /\ calls[k].threw = Undefined
        /\ calls[k].pc = "rejected"

\* The action name a call stands for: the name given to callAction, or the
\* action of the route given to callApi.
CalledName(c) == IF c.via = "callAction" THEN c.name ELSE c.api.action

C20_NotifiersStartedInOrder ==
    \A k \in Made :
        LET c == calls[k]
        IN  /\ c.notified # <<>> =>
                  (c.outcome = "succeeded" /\ c.produced # None)
            /\ Len(c.notified) <= Len(c.registered)
            /\ NotifiedSeq(c) = SubSeq(c.registered, 1, Len(c.notified))
            /\ c.pc \in {"awaitNotifiers", "resolved"} =>
                  NotifiedSeq(c) = c.registered
            /\ c.threw # Undefined =>
                  /\ c.pc = "rejected"
                  /\ Len(c.notified) = IndexIn(c.registered, c.threw)
                  /\ c.notified[Len(c.notified)].notifier = c.threw

\* C20 witness: of two registered notifiers the second threw on being
\* invoked, after the first had been invoked.
C20_Witness ==
    \E k \in Made :
        /\ Registered(calls[k])
        /\ Len(calls[k].registered) = 2
        /\ calls[k].threw = calls[k].registered[2]
        /\ NotifiedSeq(calls[k]) = calls[k].registered

====
